---- MODULE Spec2Model ----
\* Model of scripts/seed-firestore.ts: the command-line seeding script that
\* parses its flags, locates a service-account file and issues up to four
\* merge-writes to Firestore, one after the other.
\*
\* Strings are sequences of one-character strings, so that startsWith, slice,
\* split, replace, includes, endsWith and Number() are computed, not assumed.
EXTENDS Integers, Sequences, FiniteSets, TLC

\* ------------------------------------------------------------------ bounds
\* Longest argument list an invocation is given.
MaxArgs == 5
\* Longest --location text handed to buildSessionDocuments in SpecBuild.
MaxLocLen == 4
\* Number of invocations run against the same store in SpecRuns.
MaxRuns == 2

\* ----------------------------------------------------------------- strings
RECURSIVE Rep(_, _)
Rep(c, n) == IF n = 0 THEN <<>> ELSE <<c>> \o Rep(c, n - 1)

\* JavaScript's undefined, and "own property not present" of a Partial<>.
\* Neither is a sequence of one-character strings, so no string equals them.
UNDEF == <<"undefined">>
ABSENT == <<"absent">>

DashDash == <<"-", "-">>
Comma == ","

\* String.prototype.startsWith
startsWith(s, prefix) ==
    /\ Len(s) >= Len(prefix)
    /\ SubSeq(s, 1, Len(prefix)) = prefix

\* String.prototype.endsWith
endsWith(s, suffix) ==
    /\ Len(s) >= Len(suffix)
    /\ SubSeq(s, Len(s) - Len(suffix) + 1, Len(s)) = suffix

\* String.prototype.includes
includes(s, sub) ==
    \E i \in 1..(Len(s) + 1) :
        /\ i + Len(sub) - 1 <= Len(s)
        /\ SubSeq(s, i, i + Len(sub) - 1) = sub

\* String.prototype.slice(start) with a non-negative start
slice(s, start) == SubSeq(s, start + 1, Len(s))

\* String.prototype.split(','): always at least one component
RECURSIVE splitFrom(_, _, _)
splitFrom(s, i, cur) ==
    IF i > Len(s) THEN <<cur>>
    ELSE IF s[i] = Comma THEN <<cur>> \o splitFrom(s, i + 1, <<>>)
    ELSE splitFrom(s, i + 1, Append(cur, s[i]))

split(s) == splitFrom(s, 1, <<>>)

\* String.prototype.replace(/-/g, '')
RECURSIVE replaceDashes(_)
replaceDashes(s) ==
    IF s = <<>> THEN <<>>
    ELSE IF Head(s) = "-" THEN replaceDashes(Tail(s))
    ELSE <<Head(s)>> \o replaceDashes(Tail(s))

\* ---------------------------------------------------------------- Number()
\* Number(text) for texts over digits, sign, '.', blanks and other characters.
\* The texts of this model contain no exponent, no 0x/0o/0b prefix and no
\* "Infinity", the only forms with letters that Number() accepts.
Digits == {"0", "1", "2", "3", "4", "5", "6", "7", "8", "9"}
Blanks == {" "}

DigitVal(c) ==
    CASE c = "0" -> 0 [] c = "1" -> 1 [] c = "2" -> 2 [] c = "3" -> 3
      [] c = "4" -> 4 [] c = "5" -> 5 [] c = "6" -> 6 [] c = "7" -> 7
      [] c = "8" -> 8 [] c = "9" -> 9

RECURSIVE trimStart(_)
trimStart(s) ==
    IF s # <<>> /\ Head(s) \in Blanks THEN trimStart(Tail(s)) ELSE s

RECURSIVE trimEnd(_)
trimEnd(s) ==
    IF s # <<>> /\ s[Len(s)] \in Blanks THEN trimEnd(SubSeq(s, 1, Len(s) - 1)) ELSE s

trim(s) == trimEnd(trimStart(s))

AllDigits(s) == \A i \in 1..Len(s) : s[i] \in Digits

RECURSIVE IntOf(_)
IntOf(s) == IF s = <<>> THEN 0 ELSE 10 * IntOf(SubSeq(s, 1, Len(s) - 1)) + DigitVal(s[Len(s)])

\* Fraction digits without the trailing zeros, so that 1.50 and 1.5 agree.
RECURSIVE stripZeros(_)
stripZeros(s) ==
    IF s # <<>> /\ s[Len(s)] = "0" THEN stripZeros(SubSeq(s, 1, Len(s) - 1)) ELSE s

NaN == [nan |-> TRUE, neg |-> FALSE, int |-> 0, frac |-> <<>>]
Num(neg, int, frac) == [nan |-> FALSE, neg |-> neg, int |-> int, frac |-> frac]

\* An unsigned decimal literal: digits, digits '.', digits '.' digits, '.' digits
unsignedNumber(neg, s) ==
    LET dots == {i \in 1..Len(s) : s[i] = "."} IN
    IF s = <<>> THEN NaN
    ELSE IF dots = {} THEN
        IF AllDigits(s) THEN Num(neg, IntOf(s), <<>>) ELSE NaN
    ELSE IF Cardinality(dots) > 1 THEN NaN
    ELSE
        LET d == CHOOSE i \in dots : TRUE
            ip == SubSeq(s, 1, d - 1)
            fp == SubSeq(s, d + 1, Len(s))
        IN  IF ip = <<>> /\ fp = <<>> THEN NaN
            ELSE IF AllDigits(ip) /\ AllDigits(fp)
                 THEN Num(neg, IntOf(ip), stripZeros(fp))
                 ELSE NaN

\* Number(value) applied to a string: blank text is 0, a malformed one NaN.
Number(text) ==
    LET t == trim(text) IN
    IF t = <<>> THEN Num(FALSE, 0, <<>>)
    ELSE IF Head(t) = "-" THEN unsignedNumber(TRUE, Tail(t))
    ELSE IF Head(t) = "+" THEN unsignedNumber(FALSE, Tail(t))
    ELSE unsignedNumber(FALSE, t)

isNaN(n) == n.nan

\* ------------------------------------------------------- literals of the code
FlagTeacher == <<"-", "-", "t", "e", "a", "c", "h", "e", "r">>
FlagSessionId == <<"-", "-", "s", "e", "s", "s", "i", "o", "n", "-", "i", "d">>
FlagLocation == <<"-", "-", "l", "o", "c", "a", "t", "i", "o", "n">>
FlagServiceAccount == <<"-", "-", "s", "e", "r", "v", "i", "c", "e", "-", "a", "c", "c", "o", "u", "n", "t">>
FlagSkipSession == <<"-", "-", "s", "k", "i", "p", "-", "s", "e", "s", "s", "i", "o", "n">>
FlagHelp == <<"-", "-", "h", "e", "l", "p">>
ShortH == <<"-", "h">>
FlagBogus == <<"-", "-", "b", "o", "g", "u", "s">>

KeyTeacher == <<"t", "e", "a", "c", "h", "e", "r">>
KeyName == <<"n", "a", "m", "e">>
KeyClass == <<"c", "l", "a", "s", "s">>
KeySubject == <<"s", "u", "b", "j", "e", "c", "t">>
KeySessionId == <<"s", "e", "s", "s", "i", "o", "n", "-", "i", "d">>
KeyLocation == <<"l", "o", "c", "a", "t", "i", "o", "n">>
KeyServiceAccount == <<"s", "e", "r", "v", "i", "c", "e", "-", "a", "c", "c", "o", "u", "n", "t">>
KeySkipSession == <<"s", "k", "i", "p", "-", "s", "e", "s", "s", "i", "o", "n">>
KeyHelp == <<"h", "e", "l", "p">>
KeyH == <<"h">>

FirebaseAdminsdk == <<"f", "i", "r", "e", "b", "a", "s", "e", "-", "a", "d", "m", "i", "n", "s", "d", "k">>
DotJson == <<".", "j", "s", "o", "n">>

ColTeachers == <<"t", "e", "a", "c", "h", "e", "r", "s">>
ColSessions == <<"s", "e", "s", "s", "i", "o", "n", "s">>
ColPublicSessions == <<"p", "u", "b", "l", "i", "c", "S", "e", "s", "s", "i", "o", "n", "s">>
ColTeacherAnalytics == <<"t", "e", "a", "c", "h", "e", "r", "A", "n", "a", "l", "y", "t", "i", "c", "s">>
Scheduled == <<"s", "c", "h", "e", "d", "u", "l", "e", "d">>

\* The dash of the default class name is written as an ASCII hyphen.
DEFAULTS ==
    [teacherId |-> <<>>,
     teacherName |-> <<"D", "e", "m", "o", " ", "T", "e", "a", "c", "h", "e", "r">>,
     className |-> <<"G", "r", "a", "d", "e", " ", "1", "0", " ", "-", " ",
                     "S", "e", "c", "t", "i", "o", "n", " ", "A">>,
     subject |-> <<"M", "a", "t", "h", "e", "m", "a", "t", "i", "c", "s">>,
     skipSession |-> FALSE,
     sessionId |-> UNDEF,
     location |-> <<"0", ",", "0">>]

durationMinutes == 45
expectedAttendance == 30

\* A value that an if (...) or ! treats as false: undefined or the empty string.
falsy(v) == v = ABSENT \/ v = UNDEF \/ v = <<>>

\* a ?? b
nullish(a, b) == IF a = ABSENT \/ a = UNDEF THEN b ELSE a

\* --------------------------------------------------------------- parseArgs
\* ParsedArgs: a property never assigned is ABSENT; the two boolean ones are FALSE
\* until set, which is how every reader of them (a truth test, the spread over
\* DEFAULTS.skipSession = false) sees an absent one.
EmptyParsed ==
    [teacherId |-> ABSENT, teacherName |-> ABSENT, className |-> ABSENT,
     subject |-> ABSENT, sessionId |-> ABSENT, location |-> ABSENT,
     serviceAccountPath |-> ABSENT, skipSession |-> FALSE, help |-> FALSE]

\* The for loop of parseArgs, index counted from 1. `warned` collects the keys
\* console.warn reports; `parsed` is the object under construction.
RECURSIVE parseLoop(_, _, _, _)
parseLoop(argv, index, parsed, warned) ==
    IF index > Len(argv) THEN [parsed |-> parsed, warned |-> warned]
    ELSE
        LET current == argv[index] IN
        IF ~startsWith(current, DashDash)
        THEN parseLoop(argv, index + 1, parsed, warned)
        ELSE
            LET key == slice(current, 2)
                next == IF index + 1 <= Len(argv) THEN argv[index + 1] ELSE UNDEF
            IN
            CASE key = KeyTeacher ->
                    parseLoop(argv, index + 2, [parsed EXCEPT !.teacherId = next], warned)
              [] key = KeyName ->
                    parseLoop(argv, index + 2, [parsed EXCEPT !.teacherName = next], warned)
              [] key = KeyClass ->
                    parseLoop(argv, index + 2, [parsed EXCEPT !.className = next], warned)
              [] key = KeySubject ->
                    parseLoop(argv, index + 2, [parsed EXCEPT !.subject = next], warned)
              [] key = KeySessionId ->
                    parseLoop(argv, index + 2, [parsed EXCEPT !.sessionId = next], warned)
              [] key = KeyLocation ->
                    parseLoop(argv, index + 2, [parsed EXCEPT !.location = next], warned)
              [] key = KeyServiceAccount ->
                    parseLoop(argv, index + 2, [parsed EXCEPT !.serviceAccountPath = next], warned)
              [] key = KeySkipSession ->
                    parseLoop(argv, index + 1, [parsed EXCEPT !.skipSession = TRUE], warned)
              [] key = KeyHelp \/ key = KeyH ->
                    parseLoop(argv, index + 1, [parsed EXCEPT !.help = TRUE], warned)
              [] OTHER ->
                    parseLoop(argv, index + 1, parsed, Append(warned, key))

parseArgs(argv) == parseLoop(argv, 1, EmptyParsed, <<>>).parsed

parseWarnings(argv) == parseLoop(argv, 1, EmptyParsed, <<>>).warned

\* ----------------------------------------------------------- coerceOptions
\* `options` before coerceOptions has returned.
NoOptions ==
    [teacherId |-> UNDEF, teacherName |-> UNDEF, className |-> UNDEF, subject |-> UNDEF,
     skipSession |-> FALSE, sessionId |-> UNDEF, location |-> UNDEF]

\* { ...DEFAULTS, ...parsed, teacherId }: an own property of parsed, undefined
\* included, replaces the default.
mergeOptions(parsed) ==
    [teacherId |-> parsed.teacherId,
     teacherName |-> IF parsed.teacherName = ABSENT THEN DEFAULTS.teacherName ELSE parsed.teacherName,
     className |-> IF parsed.className = ABSENT THEN DEFAULTS.className ELSE parsed.className,
     subject |-> IF parsed.subject = ABSENT THEN DEFAULTS.subject ELSE parsed.subject,
     skipSession |-> parsed.skipSession,
     sessionId |-> IF parsed.sessionId = ABSENT THEN DEFAULTS.sessionId ELSE parsed.sessionId,
     location |-> IF parsed.location = ABSENT THEN DEFAULTS.location ELSE parsed.location]

\* coerceOptions without the check of lines 130-133.
coerceOptionsUnchecked(parsed) ==
    IF parsed.help THEN [kind |-> "exit", usage |-> TRUE, options |-> NoOptions]
    ELSE [kind |-> "return", usage |-> FALSE, options |-> mergeOptions(parsed)]

\* kind "exit": printUsage and process.exit(0); "throw": printUsage and the
\* missing-flag Error; "return": the merged options.
coerceOptions(parsed) ==
    IF parsed.help THEN [kind |-> "exit", usage |-> TRUE, options |-> NoOptions]
    ELSE IF falsy(parsed.teacherId) THEN [kind |-> "throw", usage |-> TRUE, options |-> NoOptions]
    ELSE [kind |-> "return", usage |-> FALSE, options |-> mergeOptions(parsed)]

\* ---------------------------------------------------- detectServiceAccount
RepoRoot == <<"/", "r">>

\* path.resolve(base, p): an absolute p stands, a relative one is placed under base.
resolve(base, p) == IF startsWith(p, <<"/">>) THEN p ELSE base \o <<"/">> \o p

isCandidate(file) == includes(file, FirebaseAdminsdk) /\ endsWith(file, DotJson)

\* detectServiceAccount that goes on to the next source when the file of an
\* earlier one is missing.
detectServiceAccountFallThrough(explicitPath, env) ==
    LET candidates == SelectSeq(env.rootFiles, isCandidate) IN
    IF ~falsy(explicitPath) /\ resolve(env.cwd, explicitPath) \in env.existing
    THEN [kind |-> "return", source |-> "explicit",
          path |-> resolve(env.cwd, explicitPath), logged |-> FALSE]
    ELSE IF ~falsy(env.envPath) /\ resolve(env.cwd, env.envPath) \in env.existing
    THEN [kind |-> "return", source |-> "env",
          path |-> resolve(env.cwd, env.envPath), logged |-> FALSE]
    ELSE IF Len(candidates) = 0
    THEN [kind |-> "throw", source |-> "scan", path |-> UNDEF, logged |-> FALSE]
    ELSE [kind |-> "return", source |-> "scan",
          path |-> resolve(RepoRoot, candidates[1]), logged |-> TRUE]

\* env: cwd, envPath (FIREBASE_SERVICE_ACCOUNT_PATH or UNDEF), existing (the paths
\* existsSync answers true for), rootFiles (readdirSync(repoRoot), in its order).
detectServiceAccount(explicitPath, env) ==
    IF ~falsy(explicitPath) THEN
        LET resolved == resolve(env.cwd, explicitPath) IN
        IF resolved \notin env.existing
        THEN [kind |-> "throw", source |-> "explicit", path |-> UNDEF, logged |-> FALSE]
        ELSE [kind |-> "return", source |-> "explicit", path |-> resolved, logged |-> FALSE]
    ELSE IF ~falsy(env.envPath) THEN
        LET resolved == resolve(env.cwd, env.envPath) IN
        IF resolved \notin env.existing
        THEN [kind |-> "throw", source |-> "env", path |-> UNDEF, logged |-> FALSE]
        ELSE [kind |-> "return", source |-> "env", path |-> resolved, logged |-> FALSE]
    ELSE
        LET candidates == SelectSeq(env.rootFiles, isCandidate) IN
        IF Len(candidates) = 0
        THEN [kind |-> "throw", source |-> "scan", path |-> UNDEF, logged |-> FALSE]
        ELSE [kind |-> "return", source |-> "scan",
              path |-> resolve(RepoRoot, candidates[1]), logged |-> TRUE]

\* ---------------------------------------------------------- document paths
teacherKey(teacherId) == <<ColTeachers, teacherId>>
sessionKey(teacherId, sessionId) == <<ColTeachers, teacherId, ColSessions, sessionId>>
publicKey(sessionToken) == <<ColPublicSessions, sessionToken>>
analyticsKey(teacherId) == <<ColTeacherAnalytics, teacherId>>

\* The path of a document reference, segments joined by '/'.
RECURSIVE pathOf(_)
pathOf(key) ==
    IF Len(key) = 1 THEN key[1] ELSE key[1] \o <<"/">> \o pathOf(Tail(key))

\* ---------------------------------------------------- buildSessionDocuments
\* No document: what a variable holds before it is assigned.
NoDoc == [none |-> TRUE]

\* Lines 173-175: the two coordinates read from options.location.
locationCoordinatesOf(options) ==
    LET parts == split(nullish(options.location, nullish(DEFAULTS.location, <<"0", ",", "0">>)))
        latitudeRaw == parts[1]
        longitudeRaw == IF Len(parts) >= 2 THEN parts[2] ELSE UNDEF
    IN  [latitude |-> Number(nullish(latitudeRaw, <<"0">>)),
         longitude |-> Number(nullish(longitudeRaw, <<"0">>))]

\* Lines 181-237: the two documents. The fields that depend on the clock
\* (scheduledFor, capturedAt, createdAt), the toFixed(5) location text and the
\* QR string are not carried.
sessionDocuments(options, sessionId, sessionToken, locationCoordinates) ==
    [kind |-> "return",
     sessionDoc |->
        [sessionId |-> sessionId,
         className |-> options.className,
         subject |-> options.subject,
         locationCoordinates |-> locationCoordinates,
         durationMinutes |-> durationMinutes,
         status |-> Scheduled,
         expectedAttendance |-> expectedAttendance,
         attendees |-> <<>>,
         sessionToken |-> sessionToken],
     publicDoc |->
        [sessionId |-> sessionId,
         sessionToken |-> sessionToken,
         sessionPath |-> ColTeachers \o <<"/">> \o options.teacherId \o <<"/">>
                         \o ColSessions \o <<"/">> \o sessionId,
         teacherId |-> options.teacherId,
         className |-> options.className,
         subject |-> options.subject,
         durationMinutes |-> durationMinutes,
         expectedAttendance |-> expectedAttendance,
         status |-> Scheduled,
         locationCoordinates |-> locationCoordinates]]

\* buildSessionDocuments without the check of lines 177-179.
buildSessionDocumentsUnchecked(options, sessionId, sessionToken) ==
    sessionDocuments(options, sessionId, sessionToken, locationCoordinatesOf(options))

\* buildSessionDocuments with the two coordinates taken in the other order.
buildSessionDocumentsSwapped(options, sessionId, sessionToken) ==
    LET c == locationCoordinatesOf(options) IN
    IF isNaN(c.latitude) \/ isNaN(c.longitude)
    THEN [kind |-> "throw", sessionDoc |-> NoDoc, publicDoc |-> NoDoc]
    ELSE sessionDocuments(options, sessionId, sessionToken,
                          [latitude |-> c.longitude, longitude |-> c.latitude])

buildSessionDocuments(options, sessionId, sessionToken) ==
    LET c == locationCoordinatesOf(options) IN
    IF isNaN(c.latitude) \/ isNaN(c.longitude)
    THEN [kind |-> "throw", sessionDoc |-> NoDoc, publicDoc |-> NoDoc]
    ELSE sessionDocuments(options, sessionId, sessionToken, c)

\* ---------------------------------------------------- buildAnalyticsPayload
\* The sample classes and students are literals of the code; the payload keeps
\* what depends on the options and the counts computed from the literals.
classRates == <<84, 76, 91>>

\* Math.round(sum / length) for a non-negative sum
roundDiv(sum, n) == (2 * sum + n) \div (2 * n)

buildAnalyticsPayload(options) ==
    [teacherId |-> options.teacherId,
     averageAttendanceRate |-> roundDiv(classRates[1] + classRates[2] + classRates[3], Len(classRates)),
     dropoutRiskCount |-> 3,
     failingStudentsCount |-> 3,
     baseClassName |-> nullish(options.className, DEFAULTS.className),
     subject |-> nullish(options.subject, DEFAULTS.subject)]

\* -------------------------------------------------------- generateSecureId
\* randomUUID is imported from node:crypto and is a function on every runtime
\* that loads the script, so the Math.random branch is never taken.
generateSecureId(uuid) == uuid

\* ------------------------------------------------------------------ state
VARIABLES
    argv,        \* process.argv.slice(2) of the running invocation
    env,         \* what the invocation finds outside: cwd, envPath, existing, rootFiles
    pc,          \* where main/seed stands
    parsed,      \* result of parseArgs
    options,     \* result of coerceOptions
    serviceAccountPath, \* result of detectServiceAccount
    initialized, \* the credential file was read and initializeApp was called
    ids,         \* sessionId, sessionToken and publicDoc of this run
    inflight,    \* writes issued and not yet answered by the store
    issued,      \* keys of the writes issued by this run, in order
    acked,       \* keys of the writes of this run the store acknowledged, in order
    rejected,    \* keys of the writes of this run the store rejected
    store,       \* the remote documents: key -> fields
    out,         \* console output of this run, as a sequence of event names
    exitCode,    \* process.exitCode; the exit status once the process has ended
    runs,        \* invocations started against this store
    completed    \* invocations that ran to the success line

vars == <<argv, env, pc, parsed, options, serviceAccountPath, initialized, ids,
          inflight, issued, acked, rejected, store, out, exitCode, runs, completed>>

\* The locals of seed's session block, lines 379-382.
NoIds == [sessionId |-> UNDEF, sessionToken |-> UNDEF, publicDoc |-> NoDoc]


\* The process has ended: by process.exit or by main returning.
Ended == pc \in {"exited", "done"}

\* ------------------------------------------------------------ the store
\* set(data, { merge: true }): fields of data replace, the others are kept.
mergeSet(db, key, data) ==
    LET old == IF key \in DOMAIN db THEN db[key] ELSE [x \in {} |-> x]
        doc == [f \in (DOMAIN old) \cup (DOMAIN data) |->
                   IF f \in DOMAIN data THEN data[f] ELSE old[f]]
    IN  [k \in (DOMAIN db) \cup {key} |-> IF k = key THEN doc ELSE db[k]]

\* A write that is started and not awaited.
awaitedNever(pending) == TRUE

\* `await promise` lets the function continue once the write was answered.
awaited(pending) == pending = {}

\* The catch block of main: the message goes to console.error, exitCode is set.
Catch(events) ==
    /\ out' = out \o events \o <<"failed">>
    /\ exitCode' = 1
    /\ pc' = "done"

\* Issuing sessionRef.set(...) and the like: the request leaves, the code awaits.
Issue(key, data) ==
    /\ inflight' = inflight \cup {[key |-> key, data |-> data]}
    /\ issued' = Append(issued, key)

\* ------------------------------------------------------------------ main
RECURSIVE warnEvents(_)
warnEvents(keys) == IF keys = <<>> THEN <<>> ELSE <<"warn">> \o warnEvents(Tail(keys))

\* main, line 400
ParseArgs ==
    /\ pc = "parse"
    /\ parsed' = parseArgs(argv)
    /\ out' = out \o warnEvents(parseWarnings(argv))
    /\ pc' = "coerce"
    /\ UNCHANGED <<argv, env, options, serviceAccountPath, initialized, ids,
                   inflight, issued, acked, rejected, store, exitCode, runs, completed>>

\* main, line 401
CoerceOptions ==
    /\ pc = "coerce"
    /\ LET r == coerceOptions(parsed) IN
       CASE r.kind = "exit" ->
                /\ out' = Append(out, "usage")
                /\ exitCode' = 0
                /\ pc' = "exited"
                /\ UNCHANGED options
         [] r.kind = "throw" ->
                /\ Catch(<<"usage">>)
                /\ UNCHANGED options
         [] r.kind = "return" ->
                /\ options' = r.options
                /\ pc' = "detect"
                /\ UNCHANGED <<out, exitCode>>
    /\ UNCHANGED <<argv, env, parsed, serviceAccountPath, initialized, ids,
                   inflight, issued, acked, rejected, store, runs, completed>>

\* main, line 402
DetectServiceAccount ==
    /\ pc = "detect"
    /\ LET r == detectServiceAccount(nullish(parsed.serviceAccountPath, UNDEF), env) IN
       IF r.kind = "throw"
       THEN /\ Catch(<<>>)
            /\ UNCHANGED serviceAccountPath
       ELSE /\ serviceAccountPath' = r.path
            /\ out' = IF r.logged THEN Append(out, "using-service-account") ELSE out
            /\ pc' = "load"
            /\ UNCHANGED exitCode
    /\ UNCHANGED <<argv, env, parsed, options, initialized, ids,
                   inflight, issued, acked, rejected, store, runs, completed>>

\* seed, lines 356-366: readFileSync, JSON.parse, cert and initializeApp throw
\* on a file that is unreadable or not a service-account key.
LoadCredentials ==
    /\ pc = "load"
    /\ \E usable \in BOOLEAN :
        IF usable
        THEN /\ initialized' = TRUE
             /\ pc' = "teacher"
             /\ UNCHANGED <<out, exitCode>>
        ELSE /\ Catch(<<>>)
             /\ UNCHANGED initialized
    /\ UNCHANGED <<argv, env, parsed, options, serviceAccountPath, ids,
                   inflight, issued, acked, rejected, store, runs, completed>>

\* seed, lines 368-376
WriteTeacher ==
    /\ pc = "teacher"
    /\ out' = Append(out, "creating-teacher")
    /\ Issue(teacherKey(options.teacherId), [displayName |-> options.teacherName])
    /\ pc' = "session"
    /\ UNCHANGED <<argv, env, parsed, options, serviceAccountPath, initialized, ids,
                   acked, rejected, store, exitCode, runs, completed>>

\* seed, lines 391-393
IssueAnalytics(events) ==
    /\ out' = out \o events \o <<"seeding-analytics">>
    /\ Issue(analyticsKey(options.teacherId), buildAnalyticsPayload(options))
    /\ pc' = "finish"
    /\ UNCHANGED exitCode

\* What a run can draw: doc().id is a 20-character id made by the client
\* library, randomUUID() a 36-character UUID with four dashes.
AutoIds == {Rep("A", 20)}
UUIDs == {Rep(c, 8) \o <<"-">> \o Rep(c, 4) \o <<"-">> \o Rep(c, 4) \o <<"-">>
          \o Rep(c, 4) \o <<"-">> \o Rep(c, 12) : c \in {"a", "b"}}

\* The token reused as the document id when no id is supplied.
sessionIdentifiersShared(opts, autoId, uuid) ==
    [sessionId |-> nullish(opts.sessionId, replaceDashes(generateSecureId(uuid))),
     sessionToken |-> replaceDashes(generateSecureId(uuid))]

\* seed, lines 379-380
sessionIdentifiers(opts, autoId, uuid) ==
    [sessionId |-> nullish(opts.sessionId, autoId),
     sessionToken |-> replaceDashes(generateSecureId(uuid))]

\* seed without the test of line 378.
seedsSessionAlways(opts) == TRUE

\* seed, line 378
seedsSession(opts) == ~opts.skipSession

\* seed after the teacher write, lines 378-385 (or 391-393 when skipped)
SeedSession ==
    /\ pc = "session"
    /\ awaited(inflight)
    /\ IF seedsSession(options)
       THEN \E autoId \in AutoIds, uuid \in UUIDs :
            LET i == sessionIdentifiers(options, autoId, uuid)
                r == buildSessionDocuments(options, i.sessionId, i.sessionToken)
            IN  /\ ids' = [sessionId |-> i.sessionId, sessionToken |-> i.sessionToken,
                            publicDoc |-> r.publicDoc]
                /\ IF r.kind = "throw"
                   THEN /\ Catch(<<>>)
                        /\ UNCHANGED <<inflight, issued>>
                   ELSE /\ out' = Append(out, "seeding-session")
                        /\ Issue(sessionKey(options.teacherId, i.sessionId), r.sessionDoc)
                        /\ pc' = "public"
                        /\ UNCHANGED exitCode
       ELSE /\ IssueAnalytics(<<>>)
            /\ UNCHANGED ids
    /\ UNCHANGED <<argv, env, parsed, options, serviceAccountPath, initialized,
                   acked, rejected, store, runs, completed>>

\* seed, lines 387-388
PublishSession ==
    /\ pc = "public"
    /\ awaited(inflight)
    /\ out' = Append(out, "publishing-public")
    /\ Issue(publicKey(ids.sessionToken), ids.publicDoc)
    /\ pc' = "analytics"
    /\ UNCHANGED <<argv, env, parsed, options, serviceAccountPath, initialized, ids,
                   acked, rejected, store, exitCode, runs, completed>>

\* seed after the public write, lines 391-393
SeedAnalytics ==
    /\ pc = "analytics"
    /\ awaited(inflight)
    /\ IssueAnalytics(<<>>)
    /\ UNCHANGED <<argv, env, parsed, options, serviceAccountPath, initialized, ids,
                   acked, rejected, store, runs, completed>>

\* seed, line 395, and the return of main
Finish ==
    /\ pc = "finish"
    /\ awaited(inflight)
    /\ out' = Append(out, "success")
    /\ pc' = "done"
    /\ completed' = completed + 1
    /\ UNCHANGED <<argv, env, parsed, options, serviceAccountPath, initialized, ids,
                   inflight, issued, acked, rejected, store, exitCode, runs>>

\* The store commits a write and resolves its promise.
Acknowledge ==
    /\ ~Ended
    /\ \E w \in inflight :
        /\ store' = mergeSet(store, w.key, w.data)
        /\ inflight' = inflight \ {w}
        /\ acked' = Append(acked, w.key)
    /\ UNCHANGED <<argv, env, pc, parsed, options, serviceAccountPath, initialized, ids,
                   issued, rejected, out, exitCode, runs, completed>>

\* A rejected write that is sent again instead of ending the run.
writeRejectedRetry(w) ==
    /\ inflight' = inflight
    /\ rejected' = Append(rejected, w.key)
    /\ issued' = Append(issued, w.key)
    /\ UNCHANGED <<out, exitCode, pc>>

\* A rejected write: the await throws, nothing in seed catches it, main's catch
\* block runs (lines 404-412).
writeRejected(w) ==
    /\ inflight' = inflight \ {w}
    /\ rejected' = Append(rejected, w.key)
    /\ Catch(<<>>)
    /\ UNCHANGED issued

\* The store (network, authentication, permission) fails a write.
Reject ==
    /\ ~Ended
    /\ \E w \in inflight : writeRejected(w)
    /\ UNCHANGED <<argv, env, parsed, options, serviceAccountPath, initialized, ids,
                   acked, store, runs, completed>>

\* ------------------------------------------------------- inputs of a run
RECURSIVE SeqsUpTo(_, _)
SeqsUpTo(S, n) ==
    IF n = 0 THEN {<<>>}
    ELSE LET shorter == SeqsUpTo(S, n - 1) IN
         shorter \cup {Append(q, x) : q \in {t \in shorter : Len(t) = n - 1}, x \in S}

Cwd == <<"/", "w">>
TeacherOne == <<"t", "1">>
KeyFile == <<"k", "e", "y">>
EnvFile == <<"e", "n", "v">>
Readme == <<"R", "E", "A", "D", "M", "E">>
ScanKeyA == <<"a", "-">> \o FirebaseAdminsdk \o DotJson
ScanKeyB == <<"b", "-">> \o FirebaseAdminsdk \o DotJson
NotAKey == FirebaseAdminsdk \o <<".", "t", "x", "t">>
HexToken == Rep("a", 32)
SessionOne == <<"s", "1">>
BadLocation == <<"a", ",", "1">>
HalfLocation == <<"7">>

Environment(envPath, existing, rootFiles) ==
    [cwd |-> Cwd, envPath |-> envPath, existing |-> existing, rootFiles |-> rootFiles]

\* A checkout with one key file at the repository root and no variable set.
KeyedEnv == Environment(UNDEF, {}, <<Readme, ScanKeyA>>)

\* Every combination of the three sources of detectServiceAccount.
AllEnvs ==
    {Environment(e, x, f) :
        e \in {UNDEF, <<>>, EnvFile},
        x \in SUBSET {resolve(Cwd, KeyFile), resolve(Cwd, EnvFile)},
        f \in {<<>>, <<Readme, NotAKey>>, <<Readme, ScanKeyA>>, <<ScanKeyB, NotAKey, ScanKeyA>>}}

StartOfRun ==
    /\ pc = "parse"
    /\ parsed = EmptyParsed
    /\ options = NoOptions
    /\ serviceAccountPath = UNDEF
    /\ initialized = FALSE
    /\ ids = NoIds
    /\ inflight = {}
    /\ issued = <<>>
    /\ acked = <<>>
    /\ rejected = <<>>
    /\ out = <<>>
    /\ exitCode = 0

\* Argument lists that begin with `prefix` and go on with up to MaxArgs tokens
\* in all, the rest drawn from Tokens.
ArgvsFrom(prefix, Tokens) ==
    {prefix \o rest : rest \in SeqsUpTo(Tokens, MaxArgs - Len(prefix))}

InitFrom(prefix, Tokens, Envs) ==
    /\ argv \in ArgvsFrom(prefix, Tokens)
    /\ env \in Envs
    /\ StartOfRun
    /\ store = [k \in {} |-> k]
    /\ runs = 1
    /\ completed = 0

Next ==
    \/ ParseArgs
    \/ CoerceOptions
    \/ DetectServiceAccount
    \/ LoadCredentials
    \/ WriteTeacher
    \/ SeedSession
    \/ PublishSession
    \/ SeedAnalytics
    \/ Finish
    \/ Acknowledge
    \/ Reject

\* One invocation; flags of the command line, help and skipping included.
CliTokens == {FlagTeacher, TeacherOne, FlagSkipSession, FlagHelp, ShortH, FlagBogus}
Init == InitFrom(<<>>, CliTokens, {KeyedEnv})
Spec == Init /\ [][Next]_vars

\* One invocation for a teacher, with every state of the three credential sources.
InitCred == InitFrom(<<FlagTeacher, TeacherOne>>, {FlagServiceAccount, KeyFile, <<>>}, AllEnvs)
SpecCred == InitCred /\ [][Next]_vars

\* One invocation for a teacher, with and without a supplied session id.
InitSession ==
    InitFrom(<<FlagTeacher, TeacherOne>>,
             {FlagSessionId, SessionOne, HexToken, FlagSkipSession}, {KeyedEnv})
SpecSession == InitSession /\ [][Next]_vars

\* One invocation for a teacher, with and without well-formed --location values.
TrailingLocation == <<"1", ",", "2", ",", "a">>
InitLocation ==
    InitFrom(<<FlagTeacher, TeacherOne>>,
             {FlagLocation, BadLocation, TrailingLocation, HalfLocation,
              FlagSkipSession, FlagHelp}, {KeyedEnv})
SpecLocation == InitLocation /\ [][Next]_vars

\* One invocation for a teacher whose --location is any text of up to MaxLocLen
\* characters, or is given without a value.
LocationChars == {"1", "2", ".", "-", " ", "a", ","}
InitBuild ==
    /\ argv \in {<<FlagTeacher, TeacherOne, FlagLocation, text>> :
                    text \in SeqsUpTo(LocationChars, MaxLocLen)}
                \cup {<<FlagTeacher, TeacherOne, FlagLocation>>}
    /\ env = KeyedEnv
    /\ StartOfRun
    /\ store = [k \in {} |-> k]
    /\ runs = 1
    /\ completed = 0
SpecBuild == InitBuild /\ [][Next]_vars

\* Invocations one after the other against the same store, with session ids
\* supplied by the caller.
SessionTwo == <<"s", "2">>
RunArgvs ==
    {<<FlagTeacher, TeacherOne, FlagSessionId, SessionOne>>,
     <<FlagTeacher, TeacherOne, FlagSessionId, SessionTwo>>,
     <<FlagTeacher, TeacherOne, FlagSkipSession>>}

InitRuns ==
    /\ argv \in RunArgvs
    /\ env = KeyedEnv
    /\ StartOfRun
    /\ store = [k \in {} |-> k]
    /\ runs = 1
    /\ completed = 0

\* The script is started again once the previous process has ended.
NewInvocation ==
    /\ Ended
    /\ runs < MaxRuns
    /\ runs' = runs + 1
    /\ argv' \in RunArgvs
    /\ pc' = "parse"
    /\ parsed' = EmptyParsed
    /\ options' = NoOptions
    /\ serviceAccountPath' = UNDEF
    /\ initialized' = FALSE
    /\ ids' = NoIds
    /\ inflight' = {}
    /\ issued' = <<>>
    /\ acked' = <<>>
    /\ rejected' = <<>>
    /\ out' = <<>>
    /\ exitCode' = 0
    /\ UNCHANGED <<env, store, completed>>

NextRuns == Next \/ NewInvocation
SpecRuns == InitRuns /\ [][NextRuns]_vars

\* ------------------------------------------------------------ observations
Range(q) == {q[i] : i \in 1..Len(q)}

isTeacherKey(k) == Len(k) = 2 /\ k[1] = ColTeachers
isSessionKey(k) == Len(k) = 4 /\ k[1] = ColTeachers /\ k[3] = ColSessions
isPublicKey(k) == Len(k) = 2 /\ k[1] = ColPublicSessions
isAnalyticsKey(k) == Len(k) = 2 /\ k[1] = ColTeacherAnalytics

kindOf(k) ==
    CASE isTeacherKey(k) -> "teacher"
      [] isSessionKey(k) -> "session"
      [] isPublicKey(k) -> "public"
      [] isAnalyticsKey(k) -> "analytics"

kindsOf(q) == [i \in 1..Len(q) |-> kindOf(q[i])]

isPrefix(p, q) == Len(p) <= Len(q) /\ SubSeq(q, 1, Len(p)) = p

\* What the command line asks for, read off the argument list.
Asked == parseArgs(argv)
Succeeded == pc = "done" /\ "success" \in Range(out)

SuppliesTeacher == ~falsy(Asked.teacherId)

\* C2 as stated: an invocation that supplies no teacher id prints the usage,
\* ends with a non-zero exit code and never comes to load credentials,
\* initialise the store client or issue a write.
C2_Original ==
    ~SuppliesTeacher =>
        /\ serviceAccountPath = UNDEF /\ ~initialized /\ issued = <<>>
        /\ Ended => "usage" \in Range(out) /\ exitCode # 0

\* C2, amended: the same for an invocation that supplies no teacher id and whose
\* arguments carry no help flag the parser reads (--help or --h); with one, the
\* usage is printed and the exit status is 0.
C2_MissingTeacher ==
    /\ (~SuppliesTeacher /\ ~Asked.help) =>
        /\ serviceAccountPath = UNDEF /\ ~initialized /\ issued = <<>>
        /\ pc \in {"parse", "coerce", "done"}
        /\ Ended => out = warnEvents(parseWarnings(argv)) \o <<"usage", "failed">> /\ exitCode = 1
    /\ (~SuppliesTeacher /\ Asked.help) =>
        /\ serviceAccountPath = UNDEF /\ ~initialized /\ issued = <<>>
        /\ Ended => "usage" \in Range(out) /\ exitCode = 0

C2_Witness ==
    /\ ~SuppliesTeacher /\ ~Asked.help
    /\ FlagTeacher \in Range(argv)
    /\ pc = "done" /\ exitCode = 1 /\ "usage" \in Range(out)

\* ---------------------------------------------------------------- claim C4
\* C4 as stated: an argument list that contains --help or -h makes the program
\* print the usage and exit with status 0, and no write is issued.
C4_Original ==
    (FlagHelp \in Range(argv) \/ ShortH \in Range(argv)) =>
        /\ issued = <<>>
        /\ pc \notin {"detect", "load", "teacher", "session", "public", "analytics", "finish"}
        /\ Ended => pc = "exited" /\ exitCode = 0 /\ "usage" \in Range(out)

\* ---------------------------------------------------------------- claim C5
ExpectedOrder ==
    IF Asked.skipSession THEN <<"teacher", "analytics">>
    ELSE <<"teacher", "session", "public", "analytics">>

\* C5: the writes of a run are issued in the order teacher, session, public
\* session, analytics (the middle two left out when skipped), each only once
\* every earlier one was acknowledged, so at most one is outstanding, and the
\* public-session document is not written before its session document is stored.
C5_SequentialWrites ==
    /\ Cardinality(inflight) <= 1
    /\ isPrefix(kindsOf(issued), ExpectedOrder)
    /\ isPrefix(acked, issued)
    /\ Len(issued) <= Len(acked) + 1
    /\ \A k \in Range(issued) :
        isPublicKey(k) =>
            /\ sessionKey(options.teacherId, ids.sessionId) \in Range(acked)
            /\ sessionKey(options.teacherId, ids.sessionId) \in DOMAIN store

C5_Witness ==
    /\ Succeeded
    /\ kindsOf(acked) = <<"teacher", "session", "public", "analytics">>

\* ---------------------------------------------------------------- claim C6
\* C6: once a write was rejected, the writes acknowledged before it are still
\* in the store, nothing was issued after it, it was issued once, the success
\* line is not logged and the process has ended with exit code 1.
C6_WriteFailure ==
    rejected # <<>> =>
        /\ \A k \in Range(acked) : k \in DOMAIN store
        /\ Cardinality(DOMAIN store) = Len(acked)
        /\ issued = acked \o rejected
        /\ Len(rejected) = 1
        /\ inflight = {}
        /\ "success" \notin Range(out)
        /\ pc = "done" /\ exitCode = 1

C6_Witness ==
    /\ rejected # <<>>
    /\ isPublicKey(rejected[1])
    /\ kindsOf(acked) = <<"teacher", "session">>
    /\ pc = "done"

\* ---------------------------------------------------------------- claim C3
SeedsASession == \E k \in Range(issued) : isSessionKey(k)
IdIsGenerated == Asked.sessionId = ABSENT \/ Asked.sessionId = UNDEF

TokenIsNotTheId ==
    /\ \A k \in Range(issued) : isSessionKey(k) => k[4] = ids.sessionId
    /\ \A k \in Range(issued) : isPublicKey(k) => k[2] = ids.sessionToken
    /\ ids.publicDoc.sessionToken = ids.sessionToken
    /\ ids.sessionToken # ids.sessionId

HasLocation == Asked.location # ABSENT /\ Asked.location # UNDEF

SomeComponentNaN(text) ==
    \E i \in 1..Len(split(text)) : isNaN(Number(split(text)[i]))

LeadingComponentNaN(text) ==
    \E i \in 1..Len(split(text)) : i <= 2 /\ isNaN(Number(split(text)[i]))

\* C7 as stated: an invocation whose --location value has a non-numeric
\* component ends with a non-zero exit code and never logs the success line,
\* whatever the other flags are.
C7_Original ==
    (HasLocation /\ SomeComponentNaN(Asked.location)) =>
        /\ "success" \notin Range(out)
        /\ Ended => exitCode # 0

\* C7, amended: an invocation whose --location value has a non-numeric first
\* or second component, and whose arguments carry neither --skip-session nor a
\* help flag as flags, ends with exit code 1, never logs the success line and
\* issues no write after the teacher document.
C7_BadLocation ==
    (HasLocation /\ LeadingComponentNaN(Asked.location) /\ ~Asked.skipSession /\ ~Asked.help) =>
        /\ "success" \notin Range(out)
        /\ \A k \in Range(issued) : isTeacherKey(k)
        /\ Ended => pc = "done" /\ exitCode = 1

C7_Witness ==
    /\ HasLocation /\ LeadingComponentNaN(Asked.location)
    /\ ~Asked.skipSession /\ ~Asked.help
    /\ pc = "done" /\ exitCode = 1
    /\ kindsOf(acked) = <<"teacher">> /\ rejected = <<>>
    /\ ids.sessionId # UNDEF

\* ---------------------------------------------------------------- claim C8
DetectionRan == options # NoOptions /\ pc \notin {"parse", "coerce", "detect"}
DetectionFailed == DetectionRan /\ pc = "done" /\ serviceAccountPath = UNDEF

FirstCandidate ==
    LET matching == {i \in 1..Len(env.rootFiles) : isCandidate(env.rootFiles[i])}
    IN  env.rootFiles[CHOOSE i \in matching : \A j \in matching : i <= j]

\* C8: the explicit --service-account path, when supplied, decides alone; else
\* FIREBASE_SERVICE_ACCOUNT_PATH, when set, decides alone; else the first
\* matching file of the repository root is taken. A decided source returns its
\* path if the file exists and fails if not; the scan fails when nothing
\* matches; and a failed detection leaves the store without any write.
C8_CredentialOrder ==
    DetectionRan =>
        /\ IF ~falsy(Asked.serviceAccountPath)
           THEN IF resolve(env.cwd, Asked.serviceAccountPath) \in env.existing
                THEN serviceAccountPath = resolve(env.cwd, Asked.serviceAccountPath)
                ELSE DetectionFailed
           ELSE IF ~falsy(env.envPath)
           THEN IF resolve(env.cwd, env.envPath) \in env.existing
                THEN serviceAccountPath = resolve(env.cwd, env.envPath)
                ELSE DetectionFailed
           ELSE IF \E i \in 1..Len(env.rootFiles) : isCandidate(env.rootFiles[i])
                THEN serviceAccountPath = resolve(RepoRoot, FirstCandidate)
                ELSE DetectionFailed
        /\ DetectionFailed =>
            /\ issued = <<>> /\ inflight = {} /\ DOMAIN store = {}
            /\ ~initialized /\ exitCode = 1

C8_Witness ==
    /\ ~falsy(Asked.serviceAccountPath)
    /\ resolve(env.cwd, Asked.serviceAccountPath) \notin env.existing
    /\ env.envPath = EnvFile /\ resolve(env.cwd, EnvFile) \in env.existing
    /\ \E i \in 1..Len(env.rootFiles) : isCandidate(env.rootFiles[i])
    /\ DetectionFailed

\* ---------------------------------------------------------------- claim C9
LocationText == nullish(Asked.location, DEFAULTS.location)
BuildRan == ids.sessionId # UNDEF
BuildFailed ==
    /\ BuildRan /\ ids.publicDoc = NoDoc
    /\ pc = "done" /\ exitCode = 1
    /\ \A k \in Range(issued) : isTeacherKey(k)

BuildReturned(latitude, longitude) ==
    /\ BuildRan /\ ids.publicDoc # NoDoc
    /\ ids.publicDoc.locationCoordinates = [latitude |-> latitude, longitude |-> longitude]
    /\ \A w \in inflight :
        isSessionKey(w.key) =>
            w.data.locationCoordinates = [latitude |-> latitude, longitude |-> longitude]
    /\ \A k \in DOMAIN store :
        isSessionKey(k) =>
            store[k].locationCoordinates = [latitude |-> latitude, longitude |-> longitude]

\* A component that is there, is not empty and that Number() takes.
IsNumericComponent(parts, i) ==
    /\ i <= Len(parts)
    /\ parts[i] # <<>>
    /\ ~isNaN(Number(parts[i]))

\* C9 as stated: with both of the first two components numeric the coordinates
\* are their numeric parses; with either of them not numeric, an empty or
\* absent one included, the builder fails.
C9_Original ==
    BuildRan =>
        LET parts == split(LocationText) IN
        IF IsNumericComponent(parts, 1) /\ IsNumericComponent(parts, 2)
        THEN BuildReturned(Number(parts[1]), Number(parts[2]))
        ELSE BuildFailed

\* C9, amended: the builder fails exactly when the first component, or the
\* second where there is one, is coerced to NaN by Number(); an empty or blank
\* component counts as 0 and an absent second component as 0, and then the
\* coordinates are those numbers.
C9_ParseLocation ==
    BuildRan =>
        LET parts == split(LocationText)
            first == Number(parts[1])
            second == IF Len(parts) >= 2 THEN Number(parts[2]) ELSE Num(FALSE, 0, <<>>)
        IN  IF isNaN(first) \/ isNaN(second)
            THEN BuildFailed
            ELSE BuildReturned(first, second)

C9_Witness ==
    /\ Asked.location = <<"2", ",", "1">>
    /\ BuildReturned(Num(FALSE, 2, <<>>), Num(FALSE, 1, <<>>))
    /\ \E k \in DOMAIN store : isSessionKey(k)

\* --------------------------------------------------------------- claim C10
\* C10 as stated: once the invocations run so far have all completed, every document
\* publicSessions/{token} carries its key as sessionToken, and its sessionPath
\* names a stored session document whose sessionToken is that key too.
C10_Original ==
    (Ended /\ completed = runs) =>
        \A k \in DOMAIN store :
            isPublicKey(k) =>
                /\ store[k].sessionToken = k[2]
                /\ \E sk \in DOMAIN store :
                    /\ isSessionKey(sk)
                    /\ pathOf(sk) = store[k].sessionPath
                    /\ store[sk].sessionToken = k[2]

====
